---- MODULE Spec2Model ----
(***************************************************************************)
(* Memo Maker: the asynchronous processing pipeline.                       *)
(*                                                                         *)
(* The state is the memo table, the transcript table, the subscription's   *)
(* usage counter, the S3 bucket, the two BullMQ queues (one list of job    *)
(* records, each job naming its queue) and the in-flight upload requests.  *)
(* Every await of a route or of a job processor that reads or writes       *)
(* shared state is one action, so that requests and processors interleave  *)
(* the way they do on the event loop and across processes.                 *)
(*                                                                         *)
(* The model follows the memos of MemoIds through the pipeline.  Memos     *)
(* share nothing but the owner's usage counter and the worker slots; the   *)
(* upload requests and the injected faults are what is bounded.            *)
(*                                                                         *)
(* Three more components have a specification of their own: MemoService    *)
(* called by a second client (SpecService), AuthService with its refresh   *)
(* tokens (SpecAuth) and the web client's AuthContext and ApiClient         *)
(* (SpecWeb).  SpecQuota is the pipeline started on an account at the edge *)
(* of its plan.  SpecTwo has two memos in flight, SpecBackoff gives the    *)
(* queues their clock, and SpecCrash lets worker processes die with jobs   *)
(* active.  SpecLive is the pipeline of one uploaded memo under fair       *)
(* scheduling of the workers, and SpecPage adds the memo detail page that  *)
(* polls it.                                                               *)
(***************************************************************************)
EXTENDS Integers, Sequences, FiniteSets, TLC

\* ---- bounds of the model ------------------------------------------------
MaxUploads == 2
MaxFaults == 3
MaxTokens == 3
\* the clock of the timed specification stops after this many ticks
MaxTicks == 8

\* ---- program constants --------------------------------------------------
attempts == 3
transcriptionConcurrency == 2
memoGenerationConcurrency == 3
monthlyMinutes == 120

\* defaultJobOptions.backoff.delay, in ms
backoffDelay == 2000
\* the Worker option maxStalledCount, left at the library's default
maxStalledCount == 1

\* the ids createMemo issues
MemoIds == {1}
UploadIds == 1..MaxUploads

Null == <<>>
NoKey == 0
NoDuration == -1

\* end time in seconds of the last segment Whisper reports; 0 stands for a
\* response without segments
SegmentEnds == {0, 45, 600}
\* the class of text.length Whisper returns with it: a response without
\* segments carries a text below validateTranscript's 50 characters
textOf(lastEnd) == IF lastEnd = 0 THEN "short" ELSE "ok"
TranscriptionProviderErrors == {"insufficient_quota", "timeout"}
GenerationProviderErrors == {"zod", "timeout"}

VARIABLES
  memoRow,      \* memoRow[m]: "absent" (id not yet issued), "live", "deleted"
  memo,         \* memo[m]: the row's fields
  transcript,   \* transcript[m]: "none" or the text class of the stored row
  minutesUsed,  \* subscription.minutesUsed of the owner
  blobs,        \* keys present in the S3 bucket
  jobs,         \* the jobs held by the two queues, in order of creation
  uploads,      \* uploads[r]: an upload-audio request
  faults,       \* provider / storage / queue faults injected so far
  usageLog,     \* history: usageLog[m] = the minutes of each incrementUsage
                \* call made for memo m, in order
  subscribed,   \* the owner has a subscription row
  createReply,  \* status code of the last reply of POST /memos, or "none"
  call,         \* the MemoService call of a second client, see below
  passwordHash, \* user.passwordHash of the owner
  refreshTokens,\* the rows of the refreshToken table
  nextToken,    \* the next token generateRefreshToken makes
  authCalls,    \* authCalls[c]: an AuthService call
  rotated,      \* history: the tokens a refreshAccessToken call has exchanged
  accounts,     \* accounts[email]: passwordHash of the user row, or Null
  client,       \* the web client: ApiClient's tokens, the cached user, the
                \* page shown, the errors and the last API response
  now,          \* Date.now() of the queues, in ms
  page          \* page[m]: the memo detail page of memo m in the web client

\* the tables and the callers of AuthService
auth == <<passwordHash, refreshTokens, nextToken, authCalls, rotated>>

\* what the pipeline's workers and the upload and delete routes leave alone
\* the web client and the user table it registers in
web == <<accounts, client>>

apart == <<subscribed, createReply, call, auth, web, now, page>>

\* the memo pipeline's own state
pipeline == <<memoRow, memo, transcript, minutesUsed, blobs, jobs, uploads,
              faults, usageLog>>

vars == <<memoRow, memo, transcript, minutesUsed, blobs, jobs, uploads,
          faults, usageLog, subscribed, createReply, call, passwordHash,
          refreshTokens, nextToken, authCalls, rotated, accounts, client,
          now, page>>

\* ---- memo rows ----------------------------------------------------------
\* MemoService.createMemo: the row as created
NewMemo ==
  [status |-> "UPLOADING", errorMessage |-> Null, audioStorageKey |-> NoKey,
   duration |-> NoDuration, memoContent |-> "null", userId |-> "owner",
   title |-> <<"t">>]

\* updateMemoStatus with a guard that leaves a FAILED row as it is
updateMemoStatusGuarded(row, status, errorMessage) ==
  IF row.status = "FAILED" THEN row
  ELSE [row EXCEPT !.status = status,
                   !.errorMessage =
                      IF errorMessage # Null THEN errorMessage ELSE @]

\* MemoService.updateMemoStatus, the update's data
updateMemoStatus(row, status, errorMessage) ==
  [row EXCEPT !.status = status,
              !.errorMessage = IF errorMessage # Null THEN errorMessage ELSE @]

\* MemoService.incrementUsage
incrementUsage(used, minutes) == used + minutes

\* checkSubscriptionLimits granting the account its last minute
checkSubscriptionLimitsInclusive(hasSubscription, used) ==
  IF ~hasSubscription THEN FALSE
  ELSE IF used > monthlyMinutes THEN FALSE
  ELSE TRUE

\* MemoService.checkSubscriptionLimits
checkSubscriptionLimits(hasSubscription, used) ==
  IF ~hasSubscription THEN FALSE
  ELSE IF used >= monthlyMinutes THEN FALSE
  ELSE TRUE

\* the minutes rounded down instead of up
durationMinutesFloor(lastEnd) == lastEnd \div 60

\* TranscriptionService.transcribeAudio: duration in minutes
durationMinutes(lastEnd) == (lastEnd + 59) \div 60

\* transcribeAudio rethrowing one message for every provider error
transcribeErrorMessageGeneric(e) == <<"Transcription failed">>

\* TranscriptionService.transcribeAudio: the message of the error it throws
transcribeErrorMessage(e) ==
  IF e = "insufficient_quota" THEN <<"OpenAI API quota exceeded">>
  ELSE <<"Transcription failed: ", e>>

\* MemoGenerationService.generateMemo: the message of the error it throws
generateErrorMessage(e) ==
  IF e = "zod" THEN <<"Generated memo format is invalid">>
  ELSE IF e = "insufficient_quota" THEN <<"OpenAI API quota exceeded">>
  ELSE <<"Memo generation failed: ", e>>

\* ---- the queues ---------------------------------------------------------
NewJob(queue, jobId, memoId) ==
  [queue |-> queue, jobId |-> jobId, memoId |-> memoId, state |-> "waiting",
   attemptsMade |-> 0, started |-> 0, providerFails |-> 0,
   lastProviderError |-> "none",
   failedReason |-> Null, pc |-> "idle", key |-> NoKey, minutes |-> 0,
   lastEnd |-> 0, text |-> "none", err |-> Null, delayedUntil |-> 0,
   stalledCounter |-> 0, diedAfterSave |-> FALSE]

\* add without the jobId check: every call creates a job
addAlways(js, queue, jobId, memoId) ==
  Append(js, NewJob(queue, jobId, memoId))

\* Queue.add with a custom jobId: a job whose id the queue already holds, in
\* whatever state, is not added again
add(js, queue, jobId, memoId) ==
  IF \E i \in DOMAIN js : js[i].queue = queue /\ js[i].jobId = jobId
    THEN js
    ELSE Append(js, NewJob(queue, jobId, memoId))

addTranscriptionJob(js, memoId) ==
  add(js, "transcription", <<"transcribe", memoId>>, memoId)

addMemoGenerationJob(js, memoId) ==
  add(js, "memo-generation", <<"generate", memoId>>, memoId)

\* a constant delay in place of the exponential one
exponentialConstant(attemptsMade) == backoffDelay

\* the built-in 'exponential' backoff strategy of the queue library:
\* Math.round(Math.pow(2, attemptsMade - 1) * delay), attemptsMade counting
\* the attempt that just failed
exponential(attemptsMade) == 2 ^ (attemptsMade - 1) * backoffDelay

concurrency(queue) ==
  IF queue = "transcription" THEN transcriptionConcurrency
  ELSE memoGenerationConcurrency

ActiveIn(queue) ==
  {i \in DOMAIN jobs : jobs[i].queue = queue /\ jobs[i].state = "active"}

\* the retry test off by one: a fourth attempt is granted
moveToFailedOneMore(job, reason) ==
  [job EXCEPT !.attemptsMade = @ + 1,
              !.state = IF job.attemptsMade + 1 <= attempts
                          THEN "delayed" ELSE "failed",
              !.delayedUntil = IF job.attemptsMade + 1 <= attempts
                                 THEN now + exponential(job.attemptsMade + 1)
                                 ELSE @,
              !.failedReason = reason,
              !.pc = "idle", !.key = NoKey, !.minutes = 0, !.lastEnd = 0,
              !.text = "none", !.err = Null]

\* the exception taking the worker down: the attempt is counted but the job
\* keeps its slot
moveToFailedHeld(job, reason) ==
  [job EXCEPT !.attemptsMade = @ + 1,
              !.delayedUntil = IF job.attemptsMade + 1 < attempts
                                 THEN now + exponential(job.attemptsMade + 1)
                                 ELSE @,
              !.failedReason = reason,
              !.pc = "idle", !.key = NoKey, !.minutes = 0, !.lastEnd = 0,
              !.text = "none", !.err = Null]

\* the processor threw: the attempt is counted and the job is retried after
\* its backoff, or failed for good once the attempts are used up
moveToFailed(job, reason) ==
  [job EXCEPT !.attemptsMade = @ + 1,
              !.state = IF job.attemptsMade + 1 < attempts
                          THEN "delayed" ELSE "failed",
              !.delayedUntil = IF job.attemptsMade + 1 < attempts
                                 THEN now + exponential(job.attemptsMade + 1)
                                 ELSE @,
              !.failedReason = reason,
              !.pc = "idle", !.key = NoKey, !.minutes = 0, !.lastEnd = 0,
              !.text = "none", !.err = Null]

\* the processor returned
moveToCompleted(job) ==
  [job EXCEPT !.state = "completed",
              !.pc = "idle", !.key = NoKey, !.minutes = 0, !.lastEnd = 0,
              !.text = "none", !.err = Null]

Throw(job, message) == [job EXCEPT !.pc = "catch", !.err = message]
Goto(job, pc) == [job EXCEPT !.pc = pc]

\* no MemoService call of the second client is in progress
NoCall ==
  [op |-> "none", userId |-> "none", memoId |-> 0, title |-> <<>>,
   pc |-> "done", result |-> "none"]

\* ---- AuthService --------------------------------------------------------
\* the callers of AuthService
AuthCallIds == {1, 2}
TokenIds == 1..MaxTokens

\* a password that passes passwordSchema, a second one, and one that passes
\* the route's min(8) but has no uppercase letter
Registered == <<"P", "a", "s", "s", "w", "0", "r", "d">>
Changed == <<"N", "e", "w", "P", "a", "s", "s", "1">>
Lowercase == <<"l", "o", "w", "e", "r", "c", "a", "s", "e", "1">>
Passwords == {Registered, Changed, Lowercase}

Uppers == {"P", "N"}
Lowers == {"a", "s", "w", "r", "d", "e", "l", "o", "c"}
Digits == {"0", "1"}

\* passwordSchema
passwordSchema(p) ==
  /\ Len(p) >= 8
  /\ \E k \in DOMAIN p : p[k] \in Uppers
  /\ \E k \in DOMAIN p : p[k] \in Lowers
  /\ \E k \in DOMAIN p : p[k] \in Digits

\* bcrypt.hash and bcrypt.compare
hash(p) == <<"$2b$10$">> \o p
compare(p, h) == h = hash(p)

NoAuthCall ==
  [op |-> "none", pc |-> "done", token |-> 0, password |-> <<>>,
   newPassword |-> <<>>, result |-> "none", returned |-> 0]

AuthCall(op, pc, token, password, newPassword, result) ==
  [op |-> op, pc |-> pc, token |-> token, password |-> password,
   newPassword |-> newPassword, result |-> result, returned |-> 0]

Stored(t) == \E row \in refreshTokens : row.token = t
Row(t) == CHOOSE row \in refreshTokens : row.token = t

\* the tables after the owner registered, no call made yet
AuthAtRest ==
  /\ passwordHash = hash(Registered)
  /\ refreshTokens = {}
  /\ nextToken = 1
  /\ authCalls = [c \in AuthCallIds |-> NoAuthCall]
  /\ rotated = {}

\* calls on their way to generateRefreshToken
Minting ==
  {c \in AuthCallIds :
     authCalls[c].pc # "done" /\ authCalls[c].op \in {"login", "refresh"}}
CanMint == nextToken + Cardinality(Minting) <= MaxTokens

\* the tokens clients present are tokens a call has returned
Issued(t) == t < nextToken

\* AuthService.generateRefreshToken: a token no earlier call made, stored
\* with its expiry date ahead
generateRefreshToken(c) ==
  /\ refreshTokens' = refreshTokens \cup
       {[token |-> nextToken, userId |-> "owner", expired |-> FALSE]}
  /\ nextToken' = nextToken + 1
  /\ authCalls' = [authCalls EXCEPT ![c] =
       [@ EXCEPT !.pc = "done", !.result = "ok", !.returned = nextToken]]

\* AuthService.login, up to the password check
login(c, password) ==
  /\ authCalls[c].pc = "done"
  /\ CanMint
  /\ authCalls' = [authCalls EXCEPT ![c] =
       IF compare(password, passwordHash)
         THEN AuthCall("login", "create", 0, <<>>, <<>>, "pending")
         ELSE AuthCall("login", "done", 0, <<>>, <<>>, "AuthenticationError")]
  /\ UNCHANGED <<passwordHash, refreshTokens, nextToken, rotated>>
  /\ UNCHANGED <<pipeline, subscribed, createReply, call, web, now, page>>

\* ... generateAccessToken, generateRefreshToken and the return
loginCreate(c) ==
  /\ authCalls[c].op = "login" /\ authCalls[c].pc = "create"
  /\ generateRefreshToken(c)
  /\ UNCHANGED <<passwordHash, rotated>>
  /\ UNCHANGED <<pipeline, subscribed, createReply, call, web, now, page>>

\* AuthService.refreshAccessToken, up to the expiry check
refreshAccessToken(c, t) ==
  /\ authCalls[c].pc = "done"
  /\ Issued(t)
  /\ CanMint
  /\ authCalls' = [authCalls EXCEPT ![c] =
       IF ~Stored(t)
         THEN AuthCall("refresh", "done", t, <<>>, <<>>, "AuthenticationError")
       ELSE IF Row(t).expired
         THEN AuthCall("refresh", "deleteExpired", t, <<>>, <<>>, "pending")
       ELSE AuthCall("refresh", "delete", t, <<>>, <<>>, "pending")]
  /\ UNCHANGED <<passwordHash, refreshTokens, nextToken, rotated>>
  /\ UNCHANGED <<pipeline, subscribed, createReply, call, web, now, page>>

\* ... the expired token is deleted and the call fails
refreshDeleteExpired(c) ==
  /\ authCalls[c].op = "refresh" /\ authCalls[c].pc = "deleteExpired"
  /\ IF Stored(authCalls[c].token)
       THEN /\ refreshTokens' = refreshTokens \ {Row(authCalls[c].token)}
            /\ authCalls' = [authCalls EXCEPT ![c] =
                 [@ EXCEPT !.pc = "done", !.result = "AuthenticationError"]]
       ELSE /\ refreshTokens' = refreshTokens
            /\ authCalls' = [authCalls EXCEPT ![c] =
                 [@ EXCEPT !.pc = "done", !.result = "P2025"]]
  /\ UNCHANGED <<passwordHash, nextToken, rotated>>
  /\ UNCHANGED <<pipeline, subscribed, createReply, call, web, now, page>>

\* the old token deleted with deleteMany, which does not throw when the row
\* is no longer there
refreshDeleteMany(c) ==
  /\ authCalls[c].op = "refresh" /\ authCalls[c].pc = "delete"
  /\ refreshTokens' = {row \in refreshTokens : row.token # authCalls[c].token}
  /\ authCalls' = [authCalls EXCEPT ![c] = [@ EXCEPT !.pc = "create"]]
  /\ UNCHANGED <<passwordHash, nextToken, rotated>>
  /\ UNCHANGED <<pipeline, subscribed, createReply, call, web, now, page>>

\* the rotation without the delete of the old token
refreshDeleteKept(c) ==
  /\ authCalls[c].op = "refresh" /\ authCalls[c].pc = "delete"
  /\ refreshTokens' = refreshTokens
  /\ authCalls' = [authCalls EXCEPT ![c] = [@ EXCEPT !.pc = "create"]]
  /\ UNCHANGED <<passwordHash, nextToken, rotated>>
  /\ UNCHANGED <<pipeline, subscribed, createReply, call, web, now, page>>

\* ... token rotation: prisma.refreshToken.delete of the old token, which
\* throws when the row is no longer there
refreshDelete(c) ==
  /\ authCalls[c].op = "refresh" /\ authCalls[c].pc = "delete"
  /\ IF Stored(authCalls[c].token)
       THEN /\ refreshTokens' = refreshTokens \ {Row(authCalls[c].token)}
            /\ authCalls' = [authCalls EXCEPT ![c] =
                 [@ EXCEPT !.pc = "create"]]
       ELSE /\ refreshTokens' = refreshTokens
            /\ authCalls' = [authCalls EXCEPT ![c] =
                 [@ EXCEPT !.pc = "done", !.result = "P2025"]]
  /\ UNCHANGED <<passwordHash, nextToken, rotated>>
  /\ UNCHANGED <<pipeline, subscribed, createReply, call, web, now, page>>

\* ... generateAccessToken, generateRefreshToken and the return
refreshCreate(c) ==
  /\ authCalls[c].op = "refresh" /\ authCalls[c].pc = "create"
  /\ generateRefreshToken(c)
  /\ rotated' = rotated \cup {authCalls[c].token}
  /\ UNCHANGED passwordHash
  /\ UNCHANGED <<pipeline, subscribed, createReply, call, web, now, page>>

\* AuthService.logout
logout(c, t) ==
  /\ authCalls[c].pc = "done"
  /\ Issued(t)
  /\ refreshTokens' = {row \in refreshTokens : row.token # t}
  /\ authCalls' = [authCalls EXCEPT ![c] =
       AuthCall("logout", "done", 0, <<>>, <<>>, "ok")]
  /\ UNCHANGED <<passwordHash, nextToken, rotated>>
  /\ UNCHANGED <<pipeline, subscribed, createReply, call, web, now, page>>

\* AuthService.changePassword, up to the check of the current password
changePassword(c, currentPassword, newPassword) ==
  /\ authCalls[c].pc = "done"
  /\ authCalls' = [authCalls EXCEPT ![c] =
       IF ~passwordSchema(newPassword)
         THEN AuthCall("changePassword", "done", 0, currentPassword,
                       newPassword, "ValidationError")
       ELSE IF ~compare(currentPassword, passwordHash)
         THEN AuthCall("changePassword", "done", 0, currentPassword,
                       newPassword, "AuthenticationError")
       ELSE AuthCall("changePassword", "commit", 0, currentPassword,
                     newPassword, "pending")]
  /\ UNCHANGED <<passwordHash, refreshTokens, nextToken, rotated>>
  /\ UNCHANGED <<pipeline, subscribed, createReply, call, web, now, page>>

\* the password updated without the deleteMany of the refresh tokens
changePasswordCommitOnlyHash(c) ==
  /\ authCalls[c].op = "changePassword" /\ authCalls[c].pc = "commit"
  /\ passwordHash' = hash(authCalls[c].newPassword)
  /\ refreshTokens' = refreshTokens
  /\ authCalls' = [authCalls EXCEPT ![c] =
       [@ EXCEPT !.pc = "done", !.result = "ok"]]
  /\ UNCHANGED <<nextToken, rotated>>
  /\ UNCHANGED <<pipeline, subscribed, createReply, call, web, now, page>>

\* ... bcrypt.hash and the transaction of user.update and
\* refreshToken.deleteMany
changePasswordCommit(c) ==
  /\ authCalls[c].op = "changePassword" /\ authCalls[c].pc = "commit"
  /\ passwordHash' = hash(authCalls[c].newPassword)
  /\ refreshTokens' = {row \in refreshTokens : row.userId # "owner"}
  /\ authCalls' = [authCalls EXCEPT ![c] =
       [@ EXCEPT !.pc = "done", !.result = "ok"]]
  /\ UNCHANGED <<nextToken, rotated>>
  /\ UNCHANGED <<pipeline, subscribed, createReply, call, web, now, page>>

\* time passes the expiresAt of a stored token
expire(t) ==
  /\ Stored(t) /\ ~Row(t).expired
  /\ refreshTokens' = (refreshTokens \ {Row(t)})
                         \cup {[Row(t) EXCEPT !.expired = TRUE]}
  /\ UNCHANGED <<passwordHash, nextToken, authCalls, rotated>>
  /\ UNCHANGED <<pipeline, subscribed, createReply, call, web, now, page>>

NextAuth ==
  \/ \E c \in AuthCallIds, password \in Passwords : login(c, password)
  \/ \E c \in AuthCallIds : loginCreate(c)
  \/ \E c \in AuthCallIds, t \in TokenIds : refreshAccessToken(c, t)
  \/ \E c \in AuthCallIds : refreshDeleteExpired(c)
  \/ \E c \in AuthCallIds : refreshDelete(c)
  \/ \E c \in AuthCallIds : refreshCreate(c)
  \/ \E c \in AuthCallIds, t \in TokenIds : logout(c, t)
  \/ \E c \in AuthCallIds, currentPassword \in {Registered, Changed},
        newPassword \in Passwords :
          changePassword(c, currentPassword, newPassword)
  \/ \E c \in AuthCallIds : changePasswordCommit(c)
  \/ \E t \in TokenIds : expire(t)

\* ---- the web client -----------------------------------------------------
Emails == {"a@x.io", "b@x.io"}

\* jwt.sign and jwt.verify of the access token; the refresh token of a login
accessTokenOf(email) == <<"jwt", email>>
refreshTokenOf(email) == <<"refresh", email>>
verifyAccessToken(token) == token # Null /\ token[1] = "jwt"

\* nobody registered, the client just loaded on the login page
WebAtRest ==
  /\ accounts = [e \in Emails |-> Null]
  /\ client = [accessToken |-> Null, refreshToken |-> Null, user |-> Null,
               route |-> "/login", loginError |-> Null,
               registerError |-> Null, response |-> "none"]

\* registerMutation: apiClient.register, then onSuccess or onError
Register(email, password) ==
  /\ IF ~passwordSchema(password)
       THEN /\ client' = [client EXCEPT
                 !.registerError = <<"Invalid registration data">>]
            /\ accounts' = accounts
     ELSE IF accounts[email] # Null
       THEN /\ client' = [client EXCEPT
                 !.registerError = <<"Email already exists">>]
            /\ accounts' = accounts
     ELSE /\ accounts' = [accounts EXCEPT ![email] = hash(password)]
          /\ client' = [client EXCEPT !.registerError = Null,
                                       !.user = <<email>>,
                                       !.route = "/memos"]
  /\ UNCHANGED <<pipeline, subscribed, createReply, call, auth, now, page>>

\* loginMutation: apiClient.login with its setTokens, then onSuccess or
\* onError
Login(email, password) ==
  /\ IF accounts[email] # Null /\ compare(password, accounts[email])
       THEN client' = [client EXCEPT !.loginError = Null,
                                     !.accessToken = accessTokenOf(email),
                                     !.refreshToken = refreshTokenOf(email),
                                     !.user = <<email>>,
                                     !.route = "/memos"]
       ELSE client' = [client EXCEPT
              !.loginError = <<"Invalid credentials">>]
  /\ UNCHANGED accounts
  /\ UNCHANGED <<pipeline, subscribed, createReply, call, auth, now, page>>

\* AuthContext.logout
Logout ==
  /\ client' = [client EXCEPT !.accessToken = Null, !.refreshToken = Null,
                              !.user = Null, !.route = "/login"]
  /\ UNCHANGED accounts
  /\ UNCHANGED <<pipeline, subscribed, createReply, call, auth, now, page>>

\* an API call behind the authenticate middleware, such as listMemos: the
\* request interceptor adds the bearer token if the client holds one
ListMemos ==
  /\ client' = [client EXCEPT !.response =
       IF client.accessToken # Null /\ verifyAccessToken(client.accessToken)
         THEN "200" ELSE "401"]
  /\ UNCHANGED accounts
  /\ UNCHANGED <<pipeline, subscribed, createReply, call, auth, now, page>>

\* the page is loaded again: ApiClient takes its tokens from localStorage
\* and the ['auth', 'me'] query runs
Reload ==
  /\ client' = [client EXCEPT
       !.user = IF client.accessToken = Null \/ client.refreshToken = Null
                  THEN Null
                  ELSE <<client.accessToken[2]>>,
       !.loginError = Null, !.registerError = Null, !.response = "none"]
  /\ UNCHANGED accounts
  /\ UNCHANGED <<pipeline, subscribed, createReply, call, auth, now, page>>

NextWeb ==
  \/ \E email \in Emails, password \in Passwords : Register(email, password)
  \/ \E email \in Emails, password \in Passwords : Login(email, password)
  \/ Logout
  \/ ListMemos
  \/ Reload

\* ---- the memo detail page ------------------------------------------------
\* the statuses at which the page's query goes on refetching
Processing == {"UPLOADING", "TRANSCRIBING", "GENERATING"}

\* MemoDetailPage's refetchInterval: 5000 ms while the memo it was given is
\* processing, false otherwise
refetchInterval(data) == data \in Processing

\* the page is mounted, its query has not fetched yet
PageOpened ==
  page = [m \in DOMAIN memoRow |-> [data |-> "none", refetching |-> TRUE]]

\* the query's fetch, the first one or a refetch of the interval:
\* apiClient.getMemo, then refetchInterval on the memo it returned
queryFn(m) ==
  /\ page[m].refetching
  /\ memoRow[m] = "live"
  /\ page' = [page EXCEPT ![m] =
       [data |-> memo[m].status,
        refetching |-> refetchInterval(memo[m].status)]]
  /\ UNCHANGED <<pipeline, subscribed, createReply, call, auth, web, now>>

\* ---- initial state ------------------------------------------------------
Init ==
  /\ memoRow = [m \in MemoIds |-> "absent"]
  /\ memo = [m \in MemoIds |-> NewMemo]
  /\ transcript = [m \in MemoIds |-> "none"]
  /\ minutesUsed = 0
  /\ blobs = {}
  /\ jobs = <<>>
  /\ uploads = [r \in UploadIds |-> [pc |-> "idle", memoId |-> 0]]
  /\ faults = 0
  /\ usageLog = [m \in MemoIds |-> <<>>]
  /\ subscribed = TRUE
  /\ createReply = "none"
  /\ call = NoCall
  /\ AuthAtRest
  /\ WebAtRest
  /\ now = 0
  /\ PageOpened

\* ---- routes -------------------------------------------------------------
\* POST /memos
CreateMemo ==
  /\ IF ~checkSubscriptionLimits(subscribed, minutesUsed)
       THEN /\ createReply' = "403"
            /\ UNCHANGED <<memoRow, memo>>
       ELSE /\ \E m \in MemoIds :
                 /\ memoRow[m] = "absent"
                 /\ \A k \in MemoIds : k < m => memoRow[k] # "absent"
                 /\ memoRow' = [memoRow EXCEPT ![m] = "live"]
                 /\ memo' = [memo EXCEPT ![m] = NewMemo]
            /\ createReply' = "201"
  /\ UNCHANGED <<subscribed, call, auth, web, now, page>>
  /\ UNCHANGED <<transcript, minutesUsed, blobs, jobs, uploads, faults,
                 usageLog>>

\* the route without its test of memo.status
UploadCheckAnyStatus(r) ==
  /\ uploads[r].pc = "idle"
  /\ \A k \in UploadIds : k < r => uploads[k].pc # "idle"
  /\ \E m \in MemoIds :
       /\ memoRow[m] # "absent"
       /\ uploads' = [uploads EXCEPT ![r] =
            [pc |-> IF memoRow[m] # "live" THEN "notFound" ELSE "store",
             memoId |-> m]]
  /\ UNCHANGED apart
  /\ UNCHANGED <<memoRow, memo, transcript, minutesUsed, blobs, jobs, faults,
                 usageLog>>

\* POST /memos/:memoId/audio, up to the status check
UploadCheck(r) ==
  /\ uploads[r].pc = "idle"
  /\ \A k \in UploadIds : k < r => uploads[k].pc # "idle"
  /\ \E m \in MemoIds :
       /\ memoRow[m] # "absent"
       /\ uploads' = [uploads EXCEPT ![r] =
            [pc |-> IF memoRow[m] # "live" THEN "notFound"
                    ELSE IF memo[m].status # "UPLOADING" THEN "invalidStatus"
                    ELSE "store",
             memoId |-> m]]
  /\ UNCHANGED apart
  /\ UNCHANGED <<memoRow, memo, transcript, minutesUsed, blobs, jobs, faults,
                 usageLog>>

\* ... storageService.uploadAudio, then memoService.setAudioUrl
UploadStore(r) ==
  /\ uploads[r].pc = "store"
  /\ LET m == uploads[r].memoId IN
       /\ blobs' = blobs \cup {r}
       /\ IF memoRow[m] = "live"
            THEN /\ memo' = [memo EXCEPT ![m].audioStorageKey = r]
                 /\ uploads' = [uploads EXCEPT ![r].pc = "enqueue"]
            ELSE /\ memo' = memo
                 /\ uploads' = [uploads EXCEPT ![r].pc = "notFound"]
  /\ UNCHANGED apart
  /\ UNCHANGED <<memoRow, transcript, minutesUsed, jobs, faults, usageLog>>

\* ... addTranscriptionJob, then the 200 reply
UploadEnqueue(r) ==
  /\ uploads[r].pc = "enqueue"
  /\ jobs' = addTranscriptionJob(jobs, uploads[r].memoId)
  /\ uploads' = [uploads EXCEPT ![r].pc = "done"]
  /\ UNCHANGED apart
  /\ UNCHANGED <<memoRow, memo, transcript, minutesUsed, blobs, faults,
                 usageLog>>

\* DELETE /memos/:memoId
DeleteMemo(m) ==
  /\ memoRow[m] = "live"
  /\ blobs' = blobs \ {memo[m].audioStorageKey}
  /\ memoRow' = [memoRow EXCEPT ![m] = "deleted"]
  /\ memo' = [memo EXCEPT ![m] = NewMemo]
  /\ transcript' = [transcript EXCEPT ![m] = "none"]
  /\ UNCHANGED apart
  /\ UNCHANGED <<minutesUsed, jobs, uploads, faults, usageLog>>

\* ---- the workers --------------------------------------------------------
\* a worker takes a waiting job while it has a free slot
Lease(i) ==
  /\ jobs[i].state = "waiting"
  /\ Cardinality(ActiveIn(jobs[i].queue)) < concurrency(jobs[i].queue)
  /\ jobs' = [jobs EXCEPT ![i] =
       [@ EXCEPT !.state = "active", !.pc = "status", !.started = @ + 1]]
  /\ UNCHANGED apart
  /\ UNCHANGED <<memoRow, memo, transcript, minutesUsed, blobs, uploads,
                 faults, usageLog>>

\* the backoff delay of a retried job has elapsed and the queue moves the job
\* back to the waiting list; the specifications without a clock leave open
\* how long that takes
Promote(i) ==
  /\ jobs[i].state = "delayed"
  /\ jobs' = [jobs EXCEPT ![i].state = "waiting"]
  /\ UNCHANGED apart
  /\ UNCHANGED <<memoRow, memo, transcript, minutesUsed, blobs, uploads,
                 faults, usageLog>>

At(i, queue, pc) ==
  /\ jobs[i].queue = queue
  /\ jobs[i].state = "active"
  /\ jobs[i].pc = pc

\* transcription processor: updateMemoStatus(memoId, 'TRANSCRIBING')
TranscriptionStatus(i) ==
  /\ At(i, "transcription", "status")
  /\ LET m == jobs[i].memoId IN
       IF memoRow[m] = "live"
         THEN /\ memo' = [memo EXCEPT ![m] =
                   updateMemoStatus(@, "TRANSCRIBING", Null)]
              /\ jobs' = [jobs EXCEPT ![i] = Goto(@, "fetch")]
         ELSE /\ memo' = memo
              /\ jobs' = [jobs EXCEPT ![i] = Throw(@, <<"Memo not found">>)]
  /\ UNCHANGED apart
  /\ UNCHANGED <<memoRow, transcript, minutesUsed, blobs, uploads, faults,
                 usageLog>>

\* ... prisma.memo.findUnique and the two checks on the row
TranscriptionFetch(i) ==
  /\ At(i, "transcription", "fetch")
  /\ LET m == jobs[i].memoId IN
       jobs' = [jobs EXCEPT ![i] =
         IF memoRow[m] # "live" THEN Throw(@, <<"Memo not found">>)
         ELSE IF memo[m].audioStorageKey = NoKey
           THEN Throw(@, <<"No audio file available">>)
         ELSE [Goto(@, "transcribe") EXCEPT !.key = memo[m].audioStorageKey]]
  /\ UNCHANGED apart
  /\ UNCHANGED <<memoRow, memo, transcript, minutesUsed, blobs, uploads,
                 faults, usageLog>>

\* ... storageService.downloadAudio, then transcriptionService.transcribeAudio
TranscriptionTranscribe(i) ==
  /\ At(i, "transcription", "transcribe")
  /\ \/ /\ jobs[i].key \notin blobs
        /\ jobs' = [jobs EXCEPT ![i] =
             Throw(@, <<"Failed to download audio file">>)]
        /\ faults' = faults
     \/ /\ jobs[i].key \in blobs
        /\ faults < MaxFaults
        /\ faults' = faults + 1
        /\ \/ jobs' = [jobs EXCEPT ![i] =
                Throw(@, <<"Failed to download audio file">>)]
           \/ \E e \in TranscriptionProviderErrors :
                jobs' = [jobs EXCEPT ![i] =
                  [Throw(@, transcribeErrorMessage(e))
                     EXCEPT !.providerFails = @ + 1,
                            !.lastProviderError = e]]
     \/ /\ jobs[i].key \in blobs
        /\ faults' = faults
        /\ \E lastEnd \in SegmentEnds :
             jobs' = [jobs EXCEPT ![i] =
               [Goto(@, "save") EXCEPT !.minutes = durationMinutes(lastEnd),
                                       !.lastEnd = lastEnd,
                                       !.text = textOf(lastEnd)]]
  /\ UNCHANGED apart
  /\ UNCHANGED <<memoRow, memo, transcript, minutesUsed, blobs, uploads,
                 usageLog>>

\* the processor going on without its transcript.create
TranscriptionSaveSkipped(i) ==
  /\ At(i, "transcription", "save")
  /\ transcript' = transcript
  /\ jobs' = [jobs EXCEPT ![i] = Goto(@, "duration")]
  /\ UNCHANGED apart
  /\ UNCHANGED <<memoRow, memo, minutesUsed, blobs, uploads, faults,
                 usageLog>>

\* the transcript written with an upsert instead of a create
TranscriptionSaveUpsert(i) ==
  /\ At(i, "transcription", "save")
  /\ LET m == jobs[i].memoId IN
       IF memoRow[m] # "live"
         THEN /\ transcript' = transcript
              /\ jobs' = [jobs EXCEPT ![i] =
                   Throw(@, <<"Foreign key constraint failed">>)]
       ELSE /\ transcript' = [transcript EXCEPT ![m] = jobs[i].text]
            /\ jobs' = [jobs EXCEPT ![i] = Goto(@, "duration")]
  /\ UNCHANGED apart
  /\ UNCHANGED <<memoRow, memo, minutesUsed, blobs, uploads, faults,
                 usageLog>>

\* ... prisma.transcript.create
TranscriptionSave(i) ==
  /\ At(i, "transcription", "save")
  /\ LET m == jobs[i].memoId IN
       IF memoRow[m] # "live"
         THEN /\ transcript' = transcript
              /\ jobs' = [jobs EXCEPT ![i] =
                   Throw(@, <<"Foreign key constraint failed">>)]
       ELSE IF transcript[m] # "none"
         THEN /\ transcript' = transcript
              /\ jobs' = [jobs EXCEPT ![i] =
                   Throw(@, <<"Unique constraint failed">>)]
       ELSE /\ transcript' = [transcript EXCEPT ![m] = jobs[i].text]
            /\ jobs' = [jobs EXCEPT ![i] = Goto(@, "duration")]
  /\ UNCHANGED apart
  /\ UNCHANGED <<memoRow, memo, minutesUsed, blobs, uploads, faults,
                 usageLog>>

\* ... prisma.memo.update of the duration
TranscriptionDuration(i) ==
  /\ At(i, "transcription", "duration")
  /\ LET m == jobs[i].memoId IN
       IF memoRow[m] = "live"
         THEN /\ memo' = [memo EXCEPT ![m].duration = jobs[i].minutes * 60]
              /\ jobs' = [jobs EXCEPT ![i] = Goto(@, "usage")]
         ELSE /\ memo' = memo
              /\ jobs' = [jobs EXCEPT ![i] =
                   Throw(@, <<"Record to update not found">>)]
  /\ UNCHANGED apart
  /\ UNCHANGED <<memoRow, transcript, minutesUsed, blobs, uploads, faults,
                 usageLog>>

\* ... memoService.incrementUsage(memo.userId, result.duration)
TranscriptionUsage(i) ==
  /\ At(i, "transcription", "usage")
  /\ minutesUsed' = incrementUsage(minutesUsed, jobs[i].minutes)
  /\ usageLog' = [usageLog EXCEPT ![jobs[i].memoId] =
       Append(@, jobs[i].minutes)]
  /\ jobs' = [jobs EXCEPT ![i] = Goto(@, "enqueue")]
  /\ UNCHANGED apart
  /\ UNCHANGED <<memoRow, memo, transcript, blobs, uploads, faults>>

\* ... addMemoGenerationJob(memoId)
TranscriptionEnqueue(i) ==
  /\ At(i, "transcription", "enqueue")
  /\ \/ /\ jobs' = [addMemoGenerationJob(jobs, jobs[i].memoId)
                      EXCEPT ![i] = Goto(@, "return")]
        /\ faults' = faults
     \/ /\ faults < MaxFaults
        /\ faults' = faults + 1
        /\ jobs' = [jobs EXCEPT ![i] = Throw(@, <<"Connection is closed.">>)]
  /\ UNCHANGED apart
  /\ UNCHANGED <<memoRow, memo, transcript, minutesUsed, blobs, uploads,
                 usageLog>>

\* ... return { success: true, duration }
TranscriptionReturn(i) ==
  /\ At(i, "transcription", "return")
  /\ jobs' = [jobs EXCEPT ![i] = moveToCompleted(@)]
  /\ UNCHANGED apart
  /\ UNCHANGED <<memoRow, memo, transcript, minutesUsed, blobs, uploads,
                 faults, usageLog>>

\* a catch block that rethrows without writing the status
CatchRethrowOnly(i, prefix) ==
  /\ memo' = memo
  /\ jobs' = [jobs EXCEPT ![i] = moveToFailed(@, jobs[i].err)]

\* the catch block of a processor: updateMemoStatus(memoId, 'FAILED', ...)
\* and the rethrow, on which the queue counts the attempt
Catch(i, prefix) ==
  LET m == jobs[i].memoId IN
    IF memoRow[m] = "live"
      THEN /\ memo' = [memo EXCEPT ![m] =
                updateMemoStatus(@, "FAILED", <<prefix>> \o jobs[i].err)]
           /\ jobs' = [jobs EXCEPT ![i] = moveToFailed(@, jobs[i].err)]
      ELSE /\ memo' = memo
           /\ jobs' = [jobs EXCEPT ![i] =
                moveToFailed(@, <<"Memo not found">>)]

TranscriptionCatch(i) ==
  /\ At(i, "transcription", "catch")
  /\ Catch(i, "Transcription failed: ")
  /\ UNCHANGED apart
  /\ UNCHANGED <<memoRow, transcript, minutesUsed, blobs, uploads, faults,
                 usageLog>>

\* generation processor: updateMemoStatus(memoId, 'GENERATING')
GenerationStatus(i) ==
  /\ At(i, "memo-generation", "status")
  /\ LET m == jobs[i].memoId IN
       IF memoRow[m] = "live"
         THEN /\ memo' = [memo EXCEPT ![m] =
                   updateMemoStatus(@, "GENERATING", Null)]
              /\ jobs' = [jobs EXCEPT ![i] = Goto(@, "fetch")]
         ELSE /\ memo' = memo
              /\ jobs' = [jobs EXCEPT ![i] = Throw(@, <<"Memo not found">>)]
  /\ UNCHANGED apart
  /\ UNCHANGED <<memoRow, transcript, minutesUsed, blobs, uploads, faults,
                 usageLog>>

\* ... prisma.memo.findUnique with the transcript, the two checks and
\* validateTranscript
GenerationFetch(i) ==
  /\ At(i, "memo-generation", "fetch")
  /\ LET m == jobs[i].memoId IN
       jobs' = [jobs EXCEPT ![i] =
         IF memoRow[m] # "live" THEN Throw(@, <<"Memo not found">>)
         ELSE IF transcript[m] = "none"
           THEN Throw(@, <<"No transcript available">>)
         ELSE IF transcript[m] = "short"
           THEN Throw(@, <<"Transcript too short (minimum 50 characters)">>)
         ELSE [Goto(@, "generate") EXCEPT !.text = transcript[m]]]
  /\ UNCHANGED apart
  /\ UNCHANGED <<memoRow, memo, transcript, minutesUsed, blobs, uploads,
                 faults, usageLog>>

\* generateMemo returning the provider's response whatever its shape
GenerationGenerateCoerced(i) ==
  /\ At(i, "memo-generation", "generate")
  /\ \/ /\ faults < MaxFaults
        /\ faults' = faults + 1
        /\ \E e \in GenerationProviderErrors :
             jobs' = [jobs EXCEPT ![i] =
               [(IF e = "zod" THEN Goto(@, "saveContent")
                 ELSE Throw(@, generateErrorMessage(e)))
                  EXCEPT !.providerFails = @ + 1,
                         !.lastProviderError = e]]
     \/ /\ faults' = faults
        /\ jobs' = [jobs EXCEPT ![i] = Goto(@, "saveContent")]
  /\ UNCHANGED apart
  /\ UNCHANGED <<memoRow, memo, transcript, minutesUsed, blobs, uploads,
                 usageLog>>

\* ... memoGenerationService.generateMemo
GenerationGenerate(i) ==
  /\ At(i, "memo-generation", "generate")
  /\ \/ /\ faults < MaxFaults
        /\ faults' = faults + 1
        /\ \E e \in GenerationProviderErrors :
             jobs' = [jobs EXCEPT ![i] =
               [Throw(@, generateErrorMessage(e))
                  EXCEPT !.providerFails = @ + 1,
                         !.lastProviderError = e]]
     \/ /\ faults' = faults
        /\ jobs' = [jobs EXCEPT ![i] = Goto(@, "saveContent")]
  /\ UNCHANGED apart
  /\ UNCHANGED <<memoRow, memo, transcript, minutesUsed, blobs, uploads,
                 usageLog>>

\* the processor going on without its setMemoContent
GenerationSaveContentSkipped(i) ==
  /\ At(i, "memo-generation", "saveContent")
  /\ memo' = memo
  /\ jobs' = [jobs EXCEPT ![i] = Goto(@, "complete")]
  /\ UNCHANGED apart
  /\ UNCHANGED <<memoRow, transcript, minutesUsed, blobs, uploads, faults,
                 usageLog>>

\* ... memoService.setMemoContent(memoId, content)
GenerationSaveContent(i) ==
  /\ At(i, "memo-generation", "saveContent")
  /\ LET m == jobs[i].memoId IN
       IF memoRow[m] = "live"
         THEN /\ memo' = [memo EXCEPT ![m].memoContent = "content"]
              /\ jobs' = [jobs EXCEPT ![i] = Goto(@, "complete")]
         ELSE /\ memo' = memo
              /\ jobs' = [jobs EXCEPT ![i] = Throw(@, <<"Memo not found">>)]
  /\ UNCHANGED apart
  /\ UNCHANGED <<memoRow, transcript, minutesUsed, blobs, uploads, faults,
                 usageLog>>

\* ... updateMemoStatus(memoId, 'COMPLETED')
GenerationComplete(i) ==
  /\ At(i, "memo-generation", "complete")
  /\ LET m == jobs[i].memoId IN
       IF memoRow[m] = "live"
         THEN /\ memo' = [memo EXCEPT ![m] =
                   updateMemoStatus(@, "COMPLETED", Null)]
              /\ jobs' = [jobs EXCEPT ![i] = Goto(@, "return")]
         ELSE /\ memo' = memo
              /\ jobs' = [jobs EXCEPT ![i] = Throw(@, <<"Memo not found">>)]
  /\ UNCHANGED apart
  /\ UNCHANGED <<memoRow, transcript, minutesUsed, blobs, uploads, faults,
                 usageLog>>

\* ... return { success: true, content }
GenerationReturn(i) ==
  /\ At(i, "memo-generation", "return")
  /\ jobs' = [jobs EXCEPT ![i] = moveToCompleted(@)]
  /\ UNCHANGED apart
  /\ UNCHANGED <<memoRow, memo, transcript, minutesUsed, blobs, uploads,
                 faults, usageLog>>

GenerationCatch(i) ==
  /\ At(i, "memo-generation", "catch")
  /\ Catch(i, "Memo generation failed: ")
  /\ UNCHANGED apart
  /\ UNCHANGED <<memoRow, transcript, minutesUsed, blobs, uploads, faults,
                 usageLog>>

\* ---- MemoService called by a second client ------------------------------
\* the user of the routes above and a user who owns no memo
Users == {"owner", "other"}
\* the title of an update: empty, or one of two texts
Titles == {<<>>, <<"u">>, <<"v">>}

\* updateMemoSchema: title is z.string().min(1)
updateMemoSchema(title) == Len(title) >= 1

\* findUnique and the existence check alone
findMemoAnyUser(m, userId) ==
  IF memoRow[m] # "live" THEN "NotFoundError" ELSE "ok"

\* findUnique and the two checks getMemo, updateMemo and deleteMemo share
findMemo(m, userId) ==
  IF memoRow[m] # "live" THEN "NotFoundError"
  ELSE IF memo[m].userId # userId THEN "AuthorizationError"
  ELSE "ok"

Idle == call.pc = "done"

Reply(op, userId, m, title, result) ==
  [op |-> op, userId |-> userId, memoId |-> m, title |-> title,
   pc |-> IF result = "pending" THEN "write" ELSE "done", result |-> result]

\* MemoService.getMemo
getMemo(m, userId) ==
  /\ Idle
  /\ call' = Reply("getMemo", userId, m, <<>>, findMemo(m, userId))
  /\ UNCHANGED <<memoRow, memo, transcript, minutesUsed, blobs, jobs, uploads,
                 faults, usageLog, subscribed, createReply, auth, web,
                 now, page>>

\* MemoService.updateMemo, up to the ownership check
updateMemo(m, userId, title) ==
  /\ Idle
  /\ call' = Reply("updateMemo", userId, m, title,
       IF ~updateMemoSchema(title) THEN "ValidationError"
       ELSE IF findMemo(m, userId) # "ok" THEN findMemo(m, userId)
       ELSE "pending")
  /\ UNCHANGED <<memoRow, memo, transcript, minutesUsed, blobs, jobs, uploads,
                 faults, usageLog, subscribed, createReply, auth, web,
                 now, page>>

\* ... prisma.memo.update
updateMemoWrite ==
  /\ call.op = "updateMemo" /\ call.pc = "write"
  /\ IF memoRow[call.memoId] = "live"
       THEN /\ memo' = [memo EXCEPT ![call.memoId].title = call.title]
            /\ call' = [call EXCEPT !.pc = "done", !.result = "ok"]
       ELSE /\ memo' = memo
            /\ call' = [call EXCEPT !.pc = "done", !.result = "P2025"]
  /\ UNCHANGED <<memoRow, transcript, minutesUsed, blobs, jobs, uploads,
                 faults, usageLog, subscribed, createReply, auth, web,
                 now, page>>

\* MemoService.deleteMemo, up to the ownership check
deleteMemo(m, userId) ==
  /\ Idle
  /\ call' = Reply("deleteMemo", userId, m, <<>>,
       IF findMemo(m, userId) # "ok" THEN findMemo(m, userId) ELSE "pending")
  /\ UNCHANGED <<memoRow, memo, transcript, minutesUsed, blobs, jobs, uploads,
                 faults, usageLog, subscribed, createReply, auth, web,
                 now, page>>

\* ... prisma.memo.delete, the transcript going with the row
deleteMemoWrite ==
  /\ call.op = "deleteMemo" /\ call.pc = "write"
  /\ IF memoRow[call.memoId] = "live"
       THEN /\ memoRow' = [memoRow EXCEPT ![call.memoId] = "deleted"]
            /\ memo' = [memo EXCEPT ![call.memoId] = NewMemo]
            /\ transcript' = [transcript EXCEPT ![call.memoId] = "none"]
            /\ call' = [call EXCEPT !.pc = "done", !.result = "ok"]
       ELSE /\ UNCHANGED <<memoRow, memo, transcript>>
            /\ call' = [call EXCEPT !.pc = "done", !.result = "P2025"]
  /\ UNCHANGED <<minutesUsed, blobs, jobs, uploads, faults, usageLog,
                 subscribed, createReply, auth, web,
                 now, page>>

\* the memo table as the pipeline can have left it: memo 1 not yet created,
\* just created, or completed with its transcript, its jobs aged out of the
\* queues
InitService ==
  /\ \E made \in {"no", "created", "completed"} :
       /\ memoRow = [m \in MemoIds |-> IF made = "no" THEN "absent" ELSE "live"]
       /\ memo = [m \in MemoIds |->
            IF made = "completed"
              THEN [NewMemo EXCEPT !.status = "COMPLETED",
                                   !.audioStorageKey = m,
                                   !.duration = 60 * durationMinutes(45),
                                   !.memoContent = "content"]
              ELSE NewMemo]
       /\ transcript = [m \in MemoIds |->
            IF made = "completed" THEN "ok" ELSE "none"]
       /\ blobs = IF made = "completed" THEN MemoIds ELSE {}
       /\ usageLog = [m \in MemoIds |->
            IF made = "completed" THEN <<durationMinutes(45)>> ELSE <<>>]
       /\ minutesUsed = IF made = "completed"
                          THEN Cardinality(MemoIds) * durationMinutes(45)
                          ELSE 0
       /\ createReply = IF made = "no" THEN "none" ELSE "201"
  /\ jobs = <<>>
  /\ uploads = [r \in UploadIds |-> [pc |-> "idle", memoId |-> 0]]
  /\ faults = 0
  /\ subscribed = TRUE
  /\ call = NoCall
  /\ AuthAtRest
  /\ WebAtRest
  /\ now = 0
  /\ PageOpened

NextService ==
  \/ CreateMemo
  \/ \E m \in MemoIds : DeleteMemo(m)
  \/ \E m \in MemoIds, userId \in Users : getMemo(m, userId)
  \/ \E m \in MemoIds, userId \in Users, title \in Titles :
       updateMemo(m, userId, title)
  \/ updateMemoWrite
  \/ \E m \in MemoIds, userId \in Users : deleteMemo(m, userId)
  \/ deleteMemoWrite

SpecService == InitService /\ [][NextService]_vars

\* ---- specification ------------------------------------------------------
Next ==
  \/ CreateMemo
  \/ \E r \in UploadIds : UploadCheck(r)
  \/ \E r \in UploadIds : UploadStore(r)
  \/ \E r \in UploadIds : UploadEnqueue(r)
  \/ \E m \in MemoIds : DeleteMemo(m)
  \/ \E i \in DOMAIN jobs : Lease(i)
  \/ \E i \in DOMAIN jobs : Promote(i)
  \/ \E i \in DOMAIN jobs : TranscriptionStatus(i)
  \/ \E i \in DOMAIN jobs : TranscriptionFetch(i)
  \/ \E i \in DOMAIN jobs : TranscriptionTranscribe(i)
  \/ \E i \in DOMAIN jobs : TranscriptionSave(i)
  \/ \E i \in DOMAIN jobs : TranscriptionDuration(i)
  \/ \E i \in DOMAIN jobs : TranscriptionUsage(i)
  \/ \E i \in DOMAIN jobs : TranscriptionEnqueue(i)
  \/ \E i \in DOMAIN jobs : TranscriptionReturn(i)
  \/ \E i \in DOMAIN jobs : TranscriptionCatch(i)
  \/ \E i \in DOMAIN jobs : GenerationStatus(i)
  \/ \E i \in DOMAIN jobs : GenerationFetch(i)
  \/ \E i \in DOMAIN jobs : GenerationGenerate(i)
  \/ \E i \in DOMAIN jobs : GenerationSaveContent(i)
  \/ \E i \in DOMAIN jobs : GenerationComplete(i)
  \/ \E i \in DOMAIN jobs : GenerationReturn(i)
  \/ \E i \in DOMAIN jobs : GenerationCatch(i)

Spec == Init /\ [][Next]_vars

\* the same system started on an account at the edge of its plan, or without
\* a subscription row
InitQuota ==
  /\ memoRow = [m \in MemoIds |-> "absent"]
  /\ memo = [m \in MemoIds |-> NewMemo]
  /\ transcript = [m \in MemoIds |-> "none"]
  /\ minutesUsed \in {monthlyMinutes - 1, monthlyMinutes, monthlyMinutes + 1}
  /\ blobs = {}
  /\ jobs = <<>>
  /\ uploads = [r \in UploadIds |-> [pc |-> "idle", memoId |-> 0]]
  /\ faults = 0
  /\ usageLog = [m \in MemoIds |-> <<>>]
  /\ subscribed \in BOOLEAN
  /\ createReply = "none"
  /\ call = NoCall
  /\ AuthAtRest
  /\ WebAtRest
  /\ now = 0
  /\ PageOpened

SpecQuota == InitQuota /\ [][Next]_vars

\* the steps of the two workers and of the queues behind them
Workers ==
  \/ \E i \in DOMAIN jobs : Lease(i)
  \/ \E i \in DOMAIN jobs : TranscriptionStatus(i)
  \/ \E i \in DOMAIN jobs : TranscriptionFetch(i)
  \/ \E i \in DOMAIN jobs : TranscriptionTranscribe(i)
  \/ \E i \in DOMAIN jobs : TranscriptionSave(i)
  \/ \E i \in DOMAIN jobs : TranscriptionDuration(i)
  \/ \E i \in DOMAIN jobs : TranscriptionUsage(i)
  \/ \E i \in DOMAIN jobs : TranscriptionEnqueue(i)
  \/ \E i \in DOMAIN jobs : TranscriptionReturn(i)
  \/ \E i \in DOMAIN jobs : TranscriptionCatch(i)
  \/ \E i \in DOMAIN jobs : GenerationStatus(i)
  \/ \E i \in DOMAIN jobs : GenerationFetch(i)
  \/ \E i \in DOMAIN jobs : GenerationGenerate(i)
  \/ \E i \in DOMAIN jobs : GenerationSaveContent(i)
  \/ \E i \in DOMAIN jobs : GenerationComplete(i)
  \/ \E i \in DOMAIN jobs : GenerationReturn(i)
  \/ \E i \in DOMAIN jobs : GenerationCatch(i)

\* two memos of the account in flight at once: both were created and
\* uploaded; memo 1 waits for its transcription, memo 2 was transcribed
\* (45 seconds of speech) and waits for its generation
TwoMemos == {1, 2}

InitTwo ==
  /\ memoRow = [m \in TwoMemos |-> "live"]
  /\ memo = [m \in TwoMemos |->
       IF m = 1 THEN [NewMemo EXCEPT !.audioStorageKey = m]
       ELSE [NewMemo EXCEPT !.audioStorageKey = m,
                            !.status = "TRANSCRIBING",
                            !.duration = durationMinutes(45) * 60]]
  /\ transcript = [m \in TwoMemos |-> IF m = 1 THEN "none" ELSE textOf(45)]
  /\ minutesUsed = incrementUsage(0, durationMinutes(45))
  /\ blobs = TwoMemos
  /\ jobs = addMemoGenerationJob(
              <<NewJob("transcription", <<"transcribe", 1>>, 1),
                [moveToCompleted(NewJob("transcription", <<"transcribe", 2>>,
                                        2)) EXCEPT !.started = 1]>>, 2)
  /\ uploads = [r \in UploadIds |->
                  IF r \in TwoMemos THEN [pc |-> "done", memoId |-> r]
                  ELSE [pc |-> "idle", memoId |-> 0]]
  /\ faults = MaxFaults - 1
  /\ usageLog = [m \in TwoMemos |->
                   IF m = 1 THEN <<>> ELSE <<durationMinutes(45)>>]
  /\ subscribed = TRUE
  /\ createReply = "201"
  /\ call = NoCall
  /\ AuthAtRest
  /\ WebAtRest
  /\ now = 0
  /\ PageOpened

NextTwo ==
  \/ Workers
  \/ \E i \in DOMAIN jobs : Promote(i)
  \/ \E m \in DOMAIN memoRow : DeleteMemo(m)

SpecTwo == InitTwo /\ [][NextTwo]_vars

\* ---- the queues with their clock ---------------------------------------
\* time passes, half a base delay at a time
Tick ==
  /\ now + backoffDelay \div 2 <= MaxTicks * (backoffDelay \div 2)
  /\ now' = now + backoffDelay \div 2
  /\ UNCHANGED <<pipeline, subscribed, createReply, call, auth, web, page>>

\* the queue promotes a delayed job once the clock has reached the job's
\* timestamp
PromoteDue(i) ==
  /\ now >= jobs[i].delayedUntil
  /\ Promote(i)

\* one memo created and uploaded, its transcription job waiting, and spent
\* faults of the budget already used
Uploaded(spent) ==
  /\ memoRow = [m \in MemoIds |-> "live"]
  /\ memo = [m \in MemoIds |-> [NewMemo EXCEPT !.audioStorageKey = m]]
  /\ transcript = [m \in MemoIds |-> "none"]
  /\ minutesUsed = 0
  /\ blobs = MemoIds
  /\ jobs = addTranscriptionJob(<<>>, 1)
  /\ uploads = [r \in UploadIds |->
                  IF r \in MemoIds THEN [pc |-> "done", memoId |-> r]
                  ELSE [pc |-> "idle", memoId |-> 0]]
  /\ faults = spent
  /\ usageLog = [m \in MemoIds |-> <<>>]
  /\ subscribed = TRUE
  /\ createReply = "201"
  /\ call = NoCall
  /\ AuthAtRest
  /\ WebAtRest
  /\ now = 0
  /\ PageOpened

\* two faults are left to inject
InitBackoff == Uploaded(MaxFaults - 2)

NextBackoff ==
  \/ Workers
  \/ \E i \in DOMAIN jobs : PromoteDue(i)
  \/ \E m \in MemoIds : DeleteMemo(m)
  \/ Tick

SpecBackoff == InitBackoff /\ [][NextBackoff]_vars

\* ---- workers that keep running -------------------------------------------
\* the pipeline of an uploaded memo with a worker process that is kept
\* running: the processors take their steps and delayed jobs are promoted
InitLive == Uploaded(0)

NextLive ==
  \/ Workers
  \/ \E i \in DOMAIN jobs : Promote(i)
  \/ \E m \in MemoIds : DeleteMemo(m)

SpecLive ==
  /\ InitLive
  /\ [][NextLive]_vars
  /\ WF_vars(Workers)
  /\ WF_vars(\E i \in DOMAIN jobs : Promote(i))

\* the pipeline of an uploaded memo watched by its detail page
NextPage ==
  \/ NextLive
  \/ \E m \in MemoIds : queryFn(m)

SpecPage == InitLive /\ [][NextPage]_vars

\* ---- workers that die ---------------------------------------------------
\* the worker process exits while job i is active (SIGTERM and SIGINT end it
\* with process.exit(0) without closing the workers; a crash does the same):
\* the processor's position and locals are lost, the job stays in the active
\* list and its lock is no longer renewed
Crash(i) ==
  /\ jobs[i].state = "active" /\ jobs[i].pc # "dead"
  /\ faults < MaxFaults
  /\ faults' = faults + 1
  /\ jobs' = [jobs EXCEPT ![i] =
       [@ EXCEPT !.pc = "dead", !.key = NoKey, !.minutes = 0, !.lastEnd = 0,
                 !.text = "none", !.err = Null,
                 !.diedAfterSave =
                    @ \/ (/\ jobs[i].queue = "transcription"
                          /\ jobs[i].pc \in {"duration", "usage",
                                             "enqueue"})]]
  /\ UNCHANGED apart
  /\ UNCHANGED <<memoRow, memo, transcript, minutesUsed, blobs, uploads,
                 usageLog>>

\* the stalled-jobs check of a running worker finds job i active without a
\* lock: the job goes back to the waiting list, or to the failed set once it
\* has stalled more than maxStalledCount times
moveStalledJobsToWait(i) ==
  /\ jobs[i].state = "active" /\ jobs[i].pc = "dead"
  /\ jobs' = [jobs EXCEPT ![i] =
       IF jobs[i].stalledCounter + 1 > maxStalledCount
         THEN [@ EXCEPT !.stalledCounter = @ + 1,
                        !.state = "failed",
                        !.failedReason =
                           <<"job stalled more than allowable limit">>,
                        !.pc = "idle"]
         ELSE [@ EXCEPT !.stalledCounter = @ + 1,
                        !.state = "waiting",
                        !.pc = "idle"]]
  /\ UNCHANGED apart
  /\ UNCHANGED <<memoRow, memo, transcript, minutesUsed, blobs, uploads,
                 faults, usageLog>>

NextCrash ==
  \/ Workers
  \/ \E i \in DOMAIN jobs : Promote(i)
  \/ \E m \in MemoIds : DeleteMemo(m)
  \/ \E i \in DOMAIN jobs : Crash(i)
  \/ \E i \in DOMAIN jobs : moveStalledJobsToWait(i)

\* a worker process is kept running: the processors, the promotion of
\* delayed jobs and the stalled-jobs check go on
SpecCrash ==
  /\ InitBackoff
  /\ [][NextCrash]_vars
  /\ WF_vars(Workers)
  /\ WF_vars(\E i \in DOMAIN jobs : Promote(i))
  /\ WF_vars(\E i \in DOMAIN jobs : moveStalledJobsToWait(i))

\* AuthService alone
SpecAuth == Init /\ [][NextAuth]_vars

\* the web client against the auth routes
SpecWeb == Init /\ [][NextWeb]_vars

\* ---- properties ---------------------------------------------------------
Live(m) == memoRow[m] = "live"
NonTerminal(job) == job.state \in {"waiting", "delayed", "active"}
JobsOf(queue, m) ==
  {i \in DOMAIN jobs : jobs[i].queue = queue /\ jobs[i].memoId = m}

StatusEdges ==
  { <<"UPLOADING", "TRANSCRIBING">>, <<"TRANSCRIBING", "GENERATING">>,
    <<"GENERATING", "COMPLETED">>, <<"TRANSCRIBING", "FAILED">>,
    <<"GENERATING", "FAILED">> }

\* C1: every change of a memo's status is one of the edges
\* UPLOADING->TRANSCRIBING, TRANSCRIBING->GENERATING, GENERATING->COMPLETED,
\* TRANSCRIBING->FAILED, GENERATING->FAILED.
C1_OnlyPipelineEdges ==
  [][\A m \in MemoIds :
       (Live(m) /\ memoRow'[m] = "live" /\ memo'[m].status # memo[m].status)
         => <<memo[m].status, memo'[m].status>> \in StatusEdges]_vars

\* C2: once a memo's status is COMPLETED or FAILED, no step writes a
\* different status to it.
C2_TerminalStatusStays ==
  [][\A m \in MemoIds :
       (Live(m) /\ memoRow'[m] = "live"
          /\ memo[m].status \in {"COMPLETED", "FAILED"})
         => memo'[m].status = memo[m].status]_vars

\* C3: a memo's status is FAILED only when one of its jobs has used up its
\* attempts (is in the failed set); while every job of the memo still has
\* attempts left, the status is never FAILED.
C3_FailedOnlyWhenExhausted ==
  \A m \in MemoIds :
    (Live(m) /\ memo[m].status = "FAILED")
      => \E i \in DOMAIN jobs : jobs[i].memoId = m /\ jobs[i].state = "failed"

\* C4: a job is executed at most `attempts` (3) times; a job that failed on
\* every attempt is in the failed set with attemptsMade = 3 after exactly 3
\* executions, a job with attemptsMade = 3 is nowhere else, and the owning
\* memo, if it still exists, then has status FAILED.
C4_BoundedRetries ==
  \A i \in DOMAIN jobs :
    /\ jobs[i].started <= attempts
    /\ jobs[i].attemptsMade >= attempts => jobs[i].state = "failed"
    /\ jobs[i].state = "failed" =>
         /\ jobs[i].attemptsMade = attempts
         /\ jobs[i].started = attempts
         /\ Live(jobs[i].memoId) => memo[jobs[i].memoId].status = "FAILED"

\* a job was given up after its third failed attempt and its memo is there
C4_Witness ==
  \E i \in DOMAIN jobs :
    /\ jobs[i].state = "failed"
    /\ jobs[i].started = 3
    /\ Live(jobs[i].memoId)
    /\ memo[jobs[i].memoId].status = "FAILED"

\* C5: for every memo m and stage, at most one job of that stage for m is
\* waiting, delayed or active.
C5_OneJobPerStageAndMemo ==
  \A i, k \in DOMAIN jobs :
    (/\ i # k
     /\ jobs[i].queue = jobs[k].queue
     /\ jobs[i].memoId = jobs[k].memoId
     /\ NonTerminal(jobs[i]))
      => ~NonTerminal(jobs[k])

\* two upload requests for one memo both reached addTranscriptionJob while
\* the job of the first was not finished
C5_Witness ==
  \E m \in MemoIds :
    /\ \A r \in {1, 2} : uploads[r].pc = "done" /\ uploads[r].memoId = m
    /\ \E i \in JobsOf("transcription", m) : NonTerminal(jobs[i])

RECURSIVE SumSeq(_)
SumSeq(q) == IF q = <<>> THEN 0 ELSE Head(q) + SumSeq(Tail(q))

RECURSIVE SumLogs(_)
SumLogs(M) ==
  IF M = {} THEN 0
  ELSE LET m == CHOOSE x \in M : TRUE
       IN SumSeq(usageLog[m]) + SumLogs(M \ {m})

TranscriptionSucceeded(m) ==
  \/ \E i \in JobsOf("transcription", m) : jobs[i].state = "completed"
  \/ JobsOf("memo-generation", m) # {}

\* C7: for a memo whose transcription succeeded, incrementUsage was called
\* exactly once, with the minutes whose 60-fold is the memo's stored duration,
\* whatever the generation attempts did; the counter is the sum of these
\* single increments.
C7_UsageCountedOnce ==
  /\ \A m \in MemoIds :
       TranscriptionSucceeded(m) =>
         /\ Len(usageLog[m]) = 1
         /\ Live(m) => memo[m].duration = 60 * usageLog[m][1]
  /\ minutesUsed = SumLogs(MemoIds)

\* transcription succeeded with 10 minutes, generation has failed twice since
C7_Witness ==
  \E m \in MemoIds :
    /\ \E i \in JobsOf("transcription", m) : jobs[i].state = "completed"
    /\ \E i \in JobsOf("memo-generation", m) : jobs[i].attemptsMade = 2
    /\ usageLog[m] = <<10>>
    /\ minutesUsed = 10

\* C8: when the generation job has completed on its third attempt after two
\* failed ones, the memo (if not deleted) has status COMPLETED, its content is
\* stored and one usage increment was recorded for it.
C8_ThirdAttemptCompletes ==
  \A i \in DOMAIN jobs :
    (/\ jobs[i].queue = "memo-generation"
     /\ jobs[i].state = "completed"
     /\ jobs[i].attemptsMade = 2
     /\ Live(jobs[i].memoId))
      => /\ memo[jobs[i].memoId].status = "COMPLETED"
         /\ memo[jobs[i].memoId].memoContent = "content"
         /\ Len(usageLog[jobs[i].memoId]) = 1

\* the generation provider failed twice, the third attempt returned
C8_Witness ==
  \E i \in DOMAIN jobs :
    /\ jobs[i].queue = "memo-generation"
    /\ jobs[i].state = "completed"
    /\ jobs[i].attemptsMade = 2
    /\ jobs[i].providerFails = 2
    /\ jobs[i].started = 3
    /\ Live(jobs[i].memoId)
    /\ memo[jobs[i].memoId].status = "COMPLETED"

\* the text transcribeAudio's error carries for a provider error
ProviderReason(e) ==
  IF e = "insufficient_quota" THEN <<"OpenAI API quota exceeded">>
  ELSE <<"Transcription failed: ", e>>

\* C9: when the transcription provider failed on all 3 attempts of a memo's
\* transcription job, no generation job exists for the memo and the memo (if
\* not deleted) has status FAILED and an error message made of the worker's
\* prefix and the provider's reason.
C9_ProviderFailureFailsMemo ==
  \A i \in DOMAIN jobs :
    (/\ jobs[i].queue = "transcription"
     /\ jobs[i].state = "failed"
     /\ jobs[i].providerFails = attempts)
      => /\ JobsOf("memo-generation", jobs[i].memoId) = {}
         /\ Live(jobs[i].memoId) =>
              /\ memo[jobs[i].memoId].status = "FAILED"
              /\ memo[jobs[i].memoId].errorMessage # Null
              /\ memo[jobs[i].memoId].errorMessage =
                   <<"Transcription failed: ">>
                     \o ProviderReason(jobs[i].lastProviderError)

\* the provider answered insufficient_quota three times
C9_Witness ==
  \E i \in DOMAIN jobs :
    /\ jobs[i].queue = "transcription"
    /\ jobs[i].state = "failed"
    /\ jobs[i].providerFails = 3
    /\ jobs[i].lastProviderError = "insufficient_quota"
    /\ Live(jobs[i].memoId)
    /\ memo[jobs[i].memoId].errorMessage =
         <<"Transcription failed: ", "OpenAI API quota exceeded">>

\* C10: a memo whose status is UPLOADING, TRANSCRIBING, GENERATING or
\* COMPLETED has no error message.
C10_ErrorMessageOnlyInFailed ==
  \A m \in MemoIds :
    (Live(m) /\ memo[m].status # "FAILED") => memo[m].errorMessage = Null

\* C11: an upload-audio request for a memo whose status is not UPLOADING is
\* rejected with the invalid-status reply; the rejecting step stores no blob,
\* changes no memo row and adds no job, and the rejected request never goes
\* on: its key is never in the bucket nor on the memo.
C11_UploadRejectedOutsideUploading ==
  [][\A r \in UploadIds :
       /\ (/\ uploads[r].pc = "idle"
           /\ uploads'[r].pc # "idle"
           /\ Live(uploads'[r].memoId)
           /\ memo[uploads'[r].memoId].status # "UPLOADING")
            => /\ uploads'[r].pc = "invalidStatus"
               /\ blobs' = blobs /\ memo' = memo /\ jobs' = jobs
       /\ uploads[r].pc = "invalidStatus"
            => /\ uploads'[r] = uploads[r]
               /\ r \notin blobs'
               /\ \A m \in MemoIds : memo'[m].audioStorageKey # r]_vars

\* the second upload request of a memo was rejected while the memo was
\* being transcribed from the audio of the first
C11_Witness ==
  /\ uploads[1].pc = "done"
  /\ uploads[2].pc = "invalidStatus"
  /\ Live(uploads[2].memoId)
  /\ memo[uploads[2].memoId].status = "TRANSCRIBING"
  /\ memo[uploads[2].memoId].audioStorageKey = 1
  /\ blobs = {1}

\* C12: when the upload-audio request has stored the blob and enqueued the
\* transcription job and replies, the memo's status is TRANSCRIBING.
C12_UploadSetsTranscribing ==
  [][\A r \in UploadIds :
       (/\ uploads[r].pc = "enqueue"
        /\ uploads'[r].pc = "done"
        /\ Live(uploads[r].memoId))
         => memo'[uploads[r].memoId].status = "TRANSCRIBING"]_vars

\* C14: at any time at most one job handler is executing for a given memo.
C14_OneHandlerPerMemo ==
  \A i, k \in DOMAIN jobs :
    (i # k /\ jobs[i].memoId = jobs[k].memoId /\ jobs[i].state = "active")
      => jobs[k].state # "active"

\* C15: while a generation job exists for a memo, no transcription job of
\* that memo is still active (the generation job is created only after the
\* transcription job was completed).
C15_GenerationAfterAck ==
  \A m \in MemoIds :
    JobsOf("memo-generation", m) # {}
      => \A i \in JobsOf("transcription", m) : jobs[i].state # "active"

\* C16: a job whose attempt found the memo record missing is not executed
\* again: it is not put back for a retry.
C16_MissingMemoNotRetried ==
  \A i \in DOMAIN jobs :
    jobs[i].failedReason = <<"Memo not found">>
      => jobs[i].state \notin {"delayed", "waiting", "active"}

\* C13: a create-memo request of an account whose minutesUsed is at or above
\* monthlyMinutes, or that has no subscription row, is rejected in the same
\* step: it gets the 403 reply, no memo row is created, no job is added and
\* the usage counter is left as it was.
C13_CreateRejectedOverQuota ==
  [][(~subscribed \/ minutesUsed >= monthlyMinutes) =>
       /\ \A m \in MemoIds : memoRow[m] = "absent" => memoRow'[m] = "absent"
       /\ createReply' # createReply =>
            /\ createReply' = "403"
            /\ memoRow' = memoRow /\ memo' = memo
            /\ jobs' = jobs /\ minutesUsed' = minutesUsed]_vars

\* the request of a subscribed account that has used exactly its 120 minutes
\* was rejected
C13_Witness ==
  /\ createReply = "403"
  /\ subscribed
  /\ minutesUsed = 120
  /\ \A m \in MemoIds : memoRow[m] = "absent"
  /\ jobs = <<>>

\* a step in which the second client's call is made
CallMade == call' # call /\ call.pc = "done"

\* C19 as claimed: getMemo, updateMemo and deleteMemo called by a user who
\* is not the memo's owner fail with AuthorizationError and leave the memo
\* and its transcript unchanged; called with the id of no memo they fail with
\* NotFoundError.
C19_ForeignOrMissingMemo ==
  [][CallMade =>
       /\ (Live(call'.memoId) /\ memo[call'.memoId].userId # call'.userId)
            => /\ call'.result = "AuthorizationError" /\ call'.pc = "done"
               /\ memoRow' = memoRow /\ memo' = memo
               /\ transcript' = transcript
       /\ ~Live(call'.memoId)
            => call'.result = "NotFoundError" /\ call'.pc = "done"]_vars

\* C19 amended: updateMemo called with invalid data fails with
\* ValidationError whoever calls it and whatever the id; every other call of
\* getMemo, updateMemo and deleteMemo by a user who is not the memo's owner
\* fails with AuthorizationError, and with the id of no memo with
\* NotFoundError; all these calls end there and leave the memo table and the
\* transcripts unchanged.
C19_ForeignOrMissingMemoValidated ==
  [][CallMade =>
       LET invalid == call'.op = "updateMemo" /\ call'.title = <<>>
           foreign == Live(call'.memoId)
                        /\ memo[call'.memoId].userId # call'.userId
       IN /\ invalid => call'.result = "ValidationError"
          /\ (~invalid /\ foreign) => call'.result = "AuthorizationError"
          /\ (~invalid /\ ~Live(call'.memoId))
               => call'.result = "NotFoundError"
          /\ (invalid \/ foreign \/ ~Live(call'.memoId))
               => /\ call'.pc = "done"
                  /\ memoRow' = memoRow /\ memo' = memo
                  /\ transcript' = transcript]_vars

\* deleteMemo by the other user was refused on a completed memo, which is
\* still there with its transcript
C19_Witness ==
  /\ call.op = "deleteMemo" /\ call.userId = "other"
  /\ call.result = "AuthorizationError" /\ call.pc = "done"
  /\ Live(call.memoId)
  /\ memo[call.memoId].status = "COMPLETED"
  /\ transcript[call.memoId] = "ok"

\* a step in which caller c makes a call of AuthService
AuthCallMade(c, op) ==
  /\ authCalls[c].pc = "done"
  /\ authCalls'[c] # authCalls[c]
  /\ authCalls'[c].op = op

OwnerTokens(rows) == {row \in rows : row.userId = "owner"}

\* C17: after refreshAccessToken(t) has succeeded, the old token t is not in
\* the store, the token the call returned is not t, and every
\* refreshAccessToken(t) made from then on fails with AuthenticationError.
C17_RotatedTokenIsDead ==
  [][/\ \A t \in rotated' : ~(\E row \in refreshTokens' : row.token = t)
     /\ \A c \in AuthCallIds :
          (authCalls'[c].op = "refresh" /\ authCalls'[c].result = "ok")
            => /\ authCalls'[c].token \in rotated'
               /\ authCalls'[c].returned # authCalls'[c].token
     /\ \A c \in AuthCallIds :
          (AuthCallMade(c, "refresh") /\ authCalls'[c].token \in rotated)
            => /\ authCalls'[c].pc = "done"
               /\ authCalls'[c].result = "AuthenticationError"]_vars

\* token 1 was exchanged for another token by one caller, and the other
\* caller's later refreshAccessToken(1) failed
C17_Witness ==
  \E c, d \in AuthCallIds :
    /\ authCalls[c].op = "refresh" /\ authCalls[c].token = 1
    /\ authCalls[c].result = "ok" /\ Stored(authCalls[c].returned)
    /\ authCalls[d].op = "refresh" /\ authCalls[d].token = 1
    /\ authCalls[d].result = "AuthenticationError"
    /\ 1 \in rotated

\* C18 as claimed: when changePassword succeeds, the password is the new
\* one and no refresh token of the user is left in the store; when the
\* current password is wrong, changePassword fails with AuthenticationError
\* and leaves the password hash and the refresh tokens unchanged.
C18_PasswordChangeRevokes ==
  [][\A c \in AuthCallIds :
       /\ (authCalls[c].pc = "commit" /\ authCalls'[c].pc = "done")
            => /\ authCalls'[c].result = "ok"
               /\ compare(authCalls[c].newPassword, passwordHash')
               /\ OwnerTokens(refreshTokens') = {}
       /\ (/\ AuthCallMade(c, "changePassword")
           /\ ~compare(authCalls'[c].password, passwordHash))
            => /\ authCalls'[c].pc = "done"
               /\ authCalls'[c].result = "AuthenticationError"
               /\ passwordHash' = passwordHash
               /\ refreshTokens' = refreshTokens]_vars

\* C18 amended: as claimed, except that a new password that does not pass
\* passwordSchema makes changePassword fail with ValidationError before the
\* current password is looked at; the password hash and the refresh tokens
\* are unchanged in that case too.
C18_PasswordChangeRevokesValidated ==
  [][\A c \in AuthCallIds :
       /\ (authCalls[c].pc = "commit" /\ authCalls'[c].pc = "done")
            => /\ authCalls'[c].result = "ok"
               /\ compare(authCalls[c].newPassword, passwordHash')
               /\ OwnerTokens(refreshTokens') = {}
       /\ AuthCallMade(c, "changePassword") =>
            LET weak == ~passwordSchema(authCalls'[c].newPassword)
                wrong == ~compare(authCalls'[c].password, passwordHash)
            IN /\ weak => authCalls'[c].result = "ValidationError"
               /\ (~weak /\ wrong)
                    => authCalls'[c].result = "AuthenticationError"
               /\ (weak \/ wrong) => authCalls'[c].pc = "done"
               /\ passwordHash' = passwordHash
               /\ refreshTokens' = refreshTokens]_vars

\* a caller logged in and got a token; the other caller changed the
\* password, and the token is gone
C18_Witness ==
  \E c, d \in AuthCallIds :
    /\ authCalls[c].op = "login" /\ authCalls[c].result = "ok"
    /\ ~Stored(authCalls[c].returned)
    /\ authCalls[d].op = "changePassword" /\ authCalls[d].result = "ok"
    /\ passwordHash = hash(Changed)
    /\ refreshTokens = {}

\* C20: after a successful registration in the web client the ApiClient
\* holds an access token and a refresh token, as after a successful login
\* of that user.
C20_RegisteredIsLoggedIn ==
  [][\A email \in Emails :
       (accounts[email] = Null /\ accounts'[email] # Null)
         => /\ client'.accessToken = accessTokenOf(email)
            /\ client'.refreshToken = refreshTokenOf(email)]_vars

\* C21: when the transcription worker adds the generation job of a memo,
\* the transcript is stored and the memo's status is already GENERATING.
C21_StatusAdvancedBeforeEnqueue ==
  [][\A m \in MemoIds :
       (UNCHANGED memoRow /\ Live(m)
          /\ Cardinality(JobsOf("memo-generation", m)) = 0
          /\ \E i \in DOMAIN jobs' :
               jobs'[i].queue = "memo-generation" /\ jobs'[i].memoId = m)
         => (transcript[m] # "none" /\ memo[m].status = "GENERATING")]_vars

\* C22: a memo whose status is GENERATING has a stored transcript.
C22_GeneratingHasTranscript ==
  \A m \in MemoIds :
    (Live(m) /\ memo[m].status = "GENERATING") => transcript[m] # "none"

\* the generation worker has written GENERATING for a memo whose stored
\* transcript is the one of a response without segments
C22_Witness ==
  \E m \in MemoIds :
    /\ Live(m) /\ memo[m].status = "GENERATING"
    /\ transcript[m] = "short"
    /\ \E i \in JobsOf("memo-generation", m) : jobs[i].pc = "fetch"

\* C23: a memo whose status is COMPLETED has its generated content and a
\* stored transcript; the attempt that wrote COMPLETED had stored the
\* content before.
C23_CompletedHasContent ==
  /\ [](\A m \in MemoIds :
          (Live(m) /\ memo[m].status = "COMPLETED")
            => memo[m].memoContent # "null" /\ transcript[m] # "none")
  /\ [][\A m \in MemoIds :
          (Live(m) /\ memoRow'[m] = "live"
             /\ memo[m].status # "COMPLETED"
             /\ memo'[m].status = "COMPLETED")
            => memo[m].memoContent = "content"]_vars

\* the generation job is at its return, the memo COMPLETED with content
C23_Witness ==
  \E m \in MemoIds :
    /\ Live(m) /\ memo[m].status = "COMPLETED"
    /\ memo[m].memoContent = "content" /\ transcript[m] = "ok"
    /\ \E i \in JobsOf("memo-generation", m) :
         jobs[i].state = "active" /\ jobs[i].pc = "return"

\* C24: an attempt of the transcription stage that comes to store its
\* transcript for a memo that already has one replaces it and goes on.
C24_RerunReplacesTranscript ==
  [][\A i \in DOMAIN jobs :
       (/\ At(i, "transcription", "save")
        /\ jobs'[i] # jobs[i]
        /\ Live(jobs[i].memoId)
        /\ transcript[jobs[i].memoId] # "none")
         => /\ jobs'[i].pc = "duration"
            /\ transcript'[jobs[i].memoId] = jobs[i].text]_vars

\* C28: when the generation provider's response fails the schema
\* validation, the attempt goes to the catch block, which stores no content,
\* does not write COMPLETED and uses up one of the job's 3 attempts: the job
\* is retried if fewer than 3 are used, given up otherwise.
C28_InvalidResponseIsStageFailure ==
  [][\A i \in DOMAIN jobs :
       /\ (/\ At(i, "memo-generation", "generate")
           /\ jobs'[i].providerFails = jobs[i].providerFails + 1
           /\ jobs'[i].lastProviderError = "zod")
            => /\ jobs'[i].pc = "catch"
               /\ jobs'[i].err = <<"Generated memo format is invalid">>
               /\ memo' = memo
       /\ (/\ At(i, "memo-generation", "catch")
           /\ jobs[i].err = <<"Generated memo format is invalid">>
           /\ jobs'[i] # jobs[i])
            => /\ \A m \in MemoIds :
                    /\ memo'[m].memoContent = memo[m].memoContent
                    /\ memo'[m].status # "COMPLETED"
               /\ jobs'[i].attemptsMade = jobs[i].attemptsMade + 1
               /\ jobs'[i].attemptsMade <= 3
               /\ jobs'[i].state =
                    IF jobs'[i].attemptsMade < 3 THEN "delayed"
                    ELSE "failed"]_vars

\* the provider's response failed the validation three times: the job is
\* given up, no content is stored
C28_Witness ==
  \E i \in DOMAIN jobs :
    /\ jobs[i].queue = "memo-generation" /\ jobs[i].state = "failed"
    /\ jobs[i].providerFails = 3 /\ jobs[i].lastProviderError = "zod"
    /\ jobs[i].failedReason = <<"Generated memo format is invalid">>
    /\ Live(jobs[i].memoId)
    /\ memo[jobs[i].memoId].memoContent = "null"

\* C30: the increment of the usage counter after a transcription is the
\* number of minutes m with 60 (m - 1) < end of the last segment <= 60 m
\* (0 without segments, 10 for 600 seconds), and the memo's stored duration
\* is 60 m seconds.
C30_UsageIsMeasuredMinutes ==
  [][\A i \in DOMAIN jobs :
       (At(i, "transcription", "usage") /\ jobs'[i] # jobs[i])
         => LET m == minutesUsed' - minutesUsed
                lastEnd == jobs[i].lastEnd
            IN /\ 60 * (m - 1) < lastEnd /\ lastEnd <= 60 * m
               /\ lastEnd = 0 => m = 0
               /\ lastEnd = 600 => m = 10
               /\ Live(jobs[i].memoId)
                    => memo[jobs[i].memoId].duration = 60 * m]_vars

\* a transcript of 45 seconds was charged as 1 minute, the memo's duration
\* is 60 seconds
C30_Witness ==
  \E i \in DOMAIN jobs :
    /\ At(i, "transcription", "enqueue")
    /\ jobs[i].lastEnd = 45
    /\ minutesUsed = 1
    /\ Live(jobs[i].memoId) /\ memo[jobs[i].memoId].duration = 60

\* a step in which the processor of job i throws, or in which its catch block
\* runs and the queue takes the job back
Failing(i) ==
  /\ jobs[i].state = "active"
  /\ \/ jobs[i].pc # "catch" /\ jobs'[i].pc = "catch"
     \/ jobs[i].pc = "catch" /\ jobs'[i] # jobs[i]

\* C25: a processor's exception does not take the worker down and touches no
\* other memo: the catch step releases the job's slot, so that the worker has
\* a free slot again, and a failing step leaves the jobs, the row, the
\* transcript and the usage of every other memo, the stored audio and the
\* usage counter as they were.
C25_FailureIsContained ==
  [][\A i \in DOMAIN jobs :
       Failing(i)
         => /\ jobs[i].pc = "catch"
                 => /\ jobs'[i].state \in {"delayed", "failed"}
                    /\ Cardinality({k \in DOMAIN jobs' :
                          /\ jobs'[k].queue = jobs[i].queue
                          /\ jobs'[k].state = "active"})
                         < concurrency(jobs[i].queue)
            /\ DOMAIN jobs' = DOMAIN jobs
            /\ \A k \in DOMAIN jobs : k # i => jobs'[k] = jobs[k]
            /\ \A m \in DOMAIN memoRow :
                 m # jobs[i].memoId
                   => /\ memoRow'[m] = memoRow[m]
                      /\ memo'[m] = memo[m]
                      /\ transcript'[m] = transcript[m]
                      /\ usageLog'[m] = usageLog[m]
            /\ blobs' = blobs
            /\ minutesUsed' = minutesUsed]_vars

\* the transcription of memo 1 failed three times and was given up while the
\* first attempt of the generation of memo 2 took memo 2 to COMPLETED
C25_Witness ==
  /\ \E i \in DOMAIN jobs :
       /\ jobs[i].memoId = 1 /\ jobs[i].state = "failed"
       /\ jobs[i].started = 3
  /\ memoRow[1] = "live" /\ memo[1].status = "FAILED"
  /\ memoRow[2] = "live" /\ memo[2].status = "COMPLETED"
  /\ \E k \in DOMAIN jobs :
       /\ jobs[k].memoId = 2 /\ jobs[k].queue = "memo-generation"
       /\ jobs[k].state = "completed" /\ jobs[k].attemptsMade = 0

\* C29: a failed attempt that leaves attempts to make puts the job off by
\* backoffDelay * 2^attempt ms, attempt counting the failed attempts before
\* it (2000 ms, then 4000 ms), which stays below the ceiling the 3 attempts
\* set; the job is neither promoted nor leased before that time has come.
C29_BackoffIsExponential ==
  [][\A i \in DOMAIN jobs :
       /\ (jobs[i].state = "active" /\ jobs'[i].state = "delayed")
            => LET attempt == jobs[i].attemptsMade
                   delay == jobs'[i].delayedUntil - now
               IN /\ delay = backoffDelay * 2 ^ attempt
                  /\ delay <= backoffDelay * 2 ^ (attempts - 2)
                  /\ attempt = 0 => delay = 2000
                  /\ attempt = 1 => delay = 4000
       /\ (jobs[i].state = "delayed" /\ jobs'[i].state # "delayed")
            => now >= jobs[i].delayedUntil
       /\ (jobs[i].attemptsMade >= 1 /\ jobs[i].state # "active"
             /\ jobs'[i].state = "active")
            => now >= jobs[i].delayedUntil]_vars

\* the first attempt failed at 0 ms, the second one at 2000 ms, and the third
\* one runs from 6000 ms
C29_Witness ==
  \E i \in DOMAIN jobs :
    /\ jobs[i].state = "active" /\ jobs[i].attemptsMade = 2
    /\ jobs[i].started = 3
    /\ jobs[i].delayedUntil = 6000 /\ now = 6000

\* C26: a job whose worker died while the job was active is processed again
\* by a worker later on.
C26_StalledJobIsProcessedAgain ==
  \A i \in {1, 2} :
    (i \in DOMAIN jobs /\ jobs[i].state = "active" /\ jobs[i].pc = "dead")
      ~> (i \in DOMAIN jobs /\ jobs[i].state = "active"
            /\ jobs[i].pc # "dead")

C37_ExchangedAtMostOnce ==
  [][\A c \in AuthCallIds :
       (/\ authCalls[c].op = "refresh" /\ authCalls[c].pc = "create"
        /\ authCalls'[c].pc = "done")
         => LET t == authCalls[c].token IN
            /\ authCalls'[c].result = "ok"
            /\ t \notin rotated
            /\ \A d \in AuthCallIds \ {c} :
                 ~(/\ authCalls[d].op = "refresh"
                   /\ authCalls[d].pc = "create"
                   /\ authCalls[d].token = t)
            /\ refreshTokens' \ refreshTokens =
                 {[token |-> authCalls'[c].returned, userId |-> "owner",
                   expired |-> FALSE]}
            /\ ~Stored(authCalls'[c].returned)
            /\ authCalls'[c].returned # t]_vars

\* two calls with token 1 interleaved: both found the row, one deleted it and
\* returned a new token, the other one's delete threw
C37_Witness ==
  \E c, d \in AuthCallIds :
    /\ authCalls[c].op = "refresh" /\ authCalls[c].token = 1
    /\ authCalls[c].result = "ok" /\ Stored(authCalls[c].returned)
    /\ authCalls[d].op = "refresh" /\ authCalls[d].token = 1
    /\ authCalls[d].pc = "done" /\ authCalls[d].result = "P2025"
    /\ Cardinality(refreshTokens) = 1

\* C31: whatever the retries, the deaths of workers and the re-deliveries,
\* incrementUsage is called at most once for a memo: an attempt reaches it
\* only when no attempt for that memo has reached it before.
C31_UsageAtMostOncePerMemo ==
  /\ [](\A m \in MemoIds : Len(usageLog[m]) <= 1)
  /\ [][\A i \in DOMAIN jobs :
          (At(i, "transcription", "usage") /\ jobs'[i].pc = "enqueue")
            => /\ usageLog[jobs[i].memoId] = <<>>
               /\ minutesUsed' = minutesUsed + jobs[i].minutes]_vars

\* the worker died after incrementUsage; the job was delivered again and its
\* second run has transcribed the audio a second time: one increment on
\* record
C31_Witness ==
  \E i \in DOMAIN jobs :
    /\ jobs[i].diedAfterSave /\ jobs[i].stalledCounter = 1
    /\ At(i, "transcription", "save")
    /\ jobs[i].minutes = 10
    /\ usageLog[jobs[i].memoId] = <<10>>
    /\ minutesUsed = 10

\* C32: a transcription job whose only failure cause is one fault after the
\* transcript was stored recovers by its retries: with one fault injected in
\* all, the transcript stored and the memo still there, the job is not given
\* up before the generation job was added.
C32_PostPersistFailureRecovers ==
  \A i \in DOMAIN jobs :
    (/\ jobs[i].queue = "transcription"
     /\ faults = 1
     /\ jobs[i].providerFails = 0
     /\ Live(jobs[i].memoId)
     /\ transcript[jobs[i].memoId] # "none"
     /\ JobsOf("memo-generation", jobs[i].memoId) = {})
      => jobs[i].state # "failed"

\* the upload requests that stored a blob and set the audio key of memo m
Accepted(m) ==
  {r \in UploadIds : uploads[r].memoId = m
                       /\ uploads[r].pc \in {"enqueue", "done"}}

\* C33: at most one upload-audio request is accepted for a memo, and while
\* the memo exists the key the transcription processor has read for its
\* download is the accepted request's key.
C33_OneAcceptedUpload ==
  \A m \in MemoIds :
    /\ Cardinality(Accepted(m)) <= 1
    /\ \A i \in JobsOf("transcription", m) :
         (Live(m) /\ jobs[i].key # NoKey) => jobs[i].key \in Accepted(m)

\* C34: a memo for which a transcription job was enqueued gets to COMPLETED
\* or FAILED and from some point on stays there, unless it is deleted.
C34_PipelineTerminates ==
  \A m \in MemoIds :
    [](JobsOf("transcription", m) # {}
         => <>[](\/ memoRow[m] = "deleted"
                 \/ memo[m].status \in {"COMPLETED", "FAILED"}))

\* both jobs of the memo needed a second attempt and completed; the memo is
\* COMPLETED and nothing is left to run
C34_Witness ==
  \E m \in MemoIds :
    /\ Live(m) /\ memo[m].status = "COMPLETED"
    /\ \A i \in DOMAIN jobs : jobs[i].memoId = m =>
         /\ jobs[i].state = "completed"
         /\ jobs[i].attemptsMade = 1
    /\ JobsOf("memo-generation", m) # {}

\* C35: once the detail page has stopped refetching on a COMPLETED or FAILED
\* memo, no step changes the status of that memo.
C35_PollingStopsAtFinalStatus ==
  [][\A m \in MemoIds :
       (/\ ~page[m].refetching
        /\ page[m].data \in {"COMPLETED", "FAILED"}
        /\ Live(m) /\ memoRow'[m] = "live")
         => memo'[m].status = memo[m].status]_vars

\* C36: the step that deletes a memo leaves neither its row nor its
\* transcript, and from then on no step brings the row back, stores a
\* transcript for the memo or increments the usage counter for it.
C36_DeletedMemoStaysGone ==
  [][\A m \in MemoIds :
       /\ (Live(m) /\ memoRow'[m] # "live")
            => (memoRow'[m] = "deleted" /\ transcript'[m] = "none")
       /\ memoRow[m] = "deleted"
            => /\ memoRow'[m] = "deleted"
               /\ transcript'[m] = "none"
               /\ minutesUsed' = minutesUsed]_vars

====
